---- MODULE Spec2Model ----
(***************************************************************************)
(* Model of pipeline/handleresult.py: TestResult.splitRP regroups the     *)
(* testcase elements of one JUnit XML report into per-subteam reports     *)
(* import-<subteam>.xml.                                                   *)
(*                                                                         *)
(* Strings the code computes on (testcase names, the str() of a counter)  *)
(* are sequences of one-character strings; strings it only copies (the    *)
(* time attribute, a dict key, a file name) are TLA+ strings.             *)
(* A DOM node reference to a testcase is its index in document order.     *)
(* A report is the testsuite elements and the testcase elements that      *)
(* getElementsByTagName finds, in document order; testcase elements are   *)
(* not nested in one another.  The input path names no import-*.xml file  *)
(* of the working directory, so no run writes its own input.  Disk errors *)
(* while writing an output file are not modelled.                         *)
(* The script may be run again on the same input once a process has       *)
(* ended; filesAtStart and prevJenkinsEnv record what an observer of two  *)
(* consecutive runs compares.                                             *)
(***************************************************************************)
EXTENDS Integers, Sequences, FiniteSets, TLC

VARIABLES
    inputFile,        \* what the path given with -i holds (never written by the program)
    isJenkinsEnv,     \* self.isJenkinsEnv
    pc,               \* position of the process
    noderoot,         \* the parsed document
    origintestsuite,  \* the first testsuite element
    mods,             \* subteam -> bucket
    idx,              \* position of "for case in cases"
    pending,          \* keys that "for k, v in mods.items()" has not finished yet
    emitting,         \* the locals of the iteration of that loop under way
    files,            \* working directory: file name -> sequence of documents written
    stdout,           \* lines printed by the running process
    exitCodes,        \* exit codes of the processes that have ended
    runs,             \* number of processes started so far
    filesAtStart,     \* the working directory when the running process started
    prevJenkinsEnv    \* isJenkinsEnv of the process before the running one

vars == <<inputFile, isJenkinsEnv, pc, noderoot, origintestsuite, mods, idx,
          pending, emitting, files, stdout, exitCodes, runs, filesAtStart, prevJenkinsEnv>>

----------------------------------------------------------------------------
(* Bounds *)

MaxCases == 2      \* testcase elements in the input report
MaxRuns == 2       \* invocations of the script on the same input

----------------------------------------------------------------------------
(* Strings *)

BeforeSuite == <<"[","B","e","f","o","r","e","S","u","i","t","e","]">>

Quote == "'"

\* sub in s
Contains(s, sub) ==
    \E i \in 1..(Len(s) - Len(sub) + 1) : SubSeq(s, i, i + Len(sub) - 1) = sub

ReplaceFirstOnly(s, ch) ==
    IF \E i \in 1..Len(s) : s[i] = ch
    THEN LET i == CHOOSE j \in 1..Len(s) : s[j] = ch /\ \A h \in 1..(j-1) : s[h] # ch
         IN  SubSeq(s, 1, i - 1) \o SubSeq(s, i + 1, Len(s))
    ELSE s

RECURSIVE Replace(_, _)
\* s.replace(ch, ""): a left-to-right scan that drops every occurrence of ch
Replace(s, ch) ==
    IF s = <<>> THEN <<>>
    ELSE IF Head(s) = ch THEN Replace(Tail(s), ch)
    ELSE <<Head(s)>> \o Replace(Tail(s), ch)

Digit == <<"0","1","2","3","4","5","6","7","8","9">>

RECURSIVE Str(_)
\* str(n) for n >= 0
Str(n) == IF n < 10 THEN <<Digit[n + 1]>> ELSE Str(n \div 10) \o <<Digit[(n % 10) + 1]>>

----------------------------------------------------------------------------
(* Inputs *)

\* a plain name, a name to exclude, and a name with two ' of which one splits the marker
SampleNames ==
    { <<"a">>,
      <<"[","B","e","f","o","r","e","S","u","i","t","e","]"," ","s">>,
      <<"'","[","B","e","f","o","r","e","'","S","u","i","t","e","]">> }

\* a testcase element: its name attribute and its failure / skipped children
TestCases == [name : SampleNames, failure : BOOLEAN, skipped : BOOLEAN]

RECURSIVE SeqsUpTo(_, _)
SeqsUpTo(S, n) ==
    IF n = 0 THEN {<<>>}
    ELSE LET shorter == SeqsUpTo(S, n - 1)
         IN  shorter \cup {Append(s, x) : s \in {t \in shorter : Len(t) = n - 1}, x \in S}

\* the time attributes of the testsuite elements, in document order
SuiteLists == { <<>>, <<[time |-> "12.3"]>>, <<[time |-> "4.5"], [time |-> "12.3"]>> }

Documents == [kind : {"xml"}, suites : SuiteLists, cases : SeqsUpTo(TestCases, MaxCases)]

NoDocument == [kind |-> "none", suites |-> <<>>, cases |-> <<>>]

InputFiles == Documents \cup { [NoDocument EXCEPT !.kind = "missing"],
                               [NoDocument EXCEPT !.kind = "malformed"] }

NoFiles == [f \in {} |-> <<>>]

NoMods == [k \in {} |-> <<>>]

FileName(k) == "import-" \o k \o ".xml"

\* an import file left by an earlier run on another report
StaleDocument ==
    [time |-> "9.9", name |-> "Cluster_Infrastructure", tests |-> Str(1),
     failures |-> Str(0), skipped |-> Str(0), errors |-> Str(0),
     children |-> <<[name |-> <<"o">>, failure |-> FALSE, skipped |-> FALSE]>>]

----------------------------------------------------------------------------
(* Parsing and the except clauses *)

\* what xml.dom.minidom.parse(input) raises
ParseRaises(file) ==
    IF file.kind = "missing" THEN "FileNotFoundError"
    ELSE IF file.kind = "malformed" THEN "ExpatError"
    ELSE "none"

\* what getElementsByTagName("testsuite")[0] raises
FirstTestsuiteRaises(doc) == IF Len(doc.suites) = 0 THEN "IndexError" ELSE "none"

FirstTestsuite(doc) == doc.suites[1]

\* the classes below Exception that the model raises
Exceptions == {"FileNotFoundError", "ExpatError", "IndexError"}

HandlerWithoutGenericClause(exc) ==
    IF exc = "FileNotFoundError" THEN "NotPresent" ELSE "Uncaught"

\* the except clause that catches exc, by the line it prints
Handler(exc) ==
    IF exc = "FileNotFoundError" THEN "NotPresent"
    ELSE IF exc \in Exceptions THEN "ErrorOccurred"
    ELSE "Uncaught"

ExitStatusNonZeroOnFailure(at) == IF at = "Done" THEN 0 ELSE 1

\* the exit status of the process: exit(0) after splitRP returned, 1 after a traceback
ExitStatus(at) == IF at = "Crashed" THEN 1 ELSE 0

InitModsWithBucket ==
    ("Cluster_Infrastructure" :>
        [cases |-> <<>>, tests |-> 0, skipped |-> 0, failure |-> 0, errors |-> 0])

\* mods = {}
InitMods == NoMods

----------------------------------------------------------------------------
(* Bucketing: the body of "for case in cases" *)

FailCount(case) == IF case.failure THEN 1 ELSE 0

SkippedCount(case) == IF case.skipped THEN 1 ELSE 0

ErrorCount(case) == 0

Subteam(case) == "Cluster_Infrastructure"

IncludedAfterStripping(name) == ~ Contains(Replace(name, Quote), BeforeSuite)

\* "[BeforeSuite]" not in name
Included(name) == ~ Contains(name, BeforeSuite)

\* names after names.append(tmpname)
Names(name) == <<Replace(name, Quote)>>

AddCaseAlwaysNewBucket(m, subteam, casedesc, failcount, skippedcount, errorcount) ==
    (subteam :> [cases |-> <<casedesc>>, tests |-> 1, skipped |-> skippedcount,
                 failure |-> failcount, errors |-> errorcount]) @@ m

\* mods after the if / else on mods.get(subteam)
AddCase(m, subteam, casedesc, failcount, skippedcount, errorcount) ==
    IF subteam \in DOMAIN m
    THEN [m EXCEPT ![subteam] =
             [@ EXCEPT !.cases = Append(@, casedesc),
                       !.tests = @ + 1,
                       !.skipped = @ + skippedcount,
                       !.failure = @ + failcount]]
    ELSE (subteam :> [cases |-> <<casedesc>>, tests |-> 1, skipped |-> skippedcount,
                      failure |-> failcount, errors |-> errorcount]) @@ m

\* mods after one iteration on the testcase at position i
BucketOne(m, doc, i) ==
    LET case == doc.cases[i]
        name == case.name
    IN  IF Included(name)
        THEN AddCase(m, Subteam(case), [case |-> i, names |-> Names(name)],
                     FailCount(case), SkippedCount(case), ErrorCount(case))
        ELSE m

\* the keys of mods in the order mods.items() yields them (one subteam exists)
RECURSIVE KeysOf(_)
KeysOf(S) == IF S = {} THEN <<>> ELSE LET k == CHOOSE x \in S : TRUE IN <<k>> \o KeysOf(S \ {k})

----------------------------------------------------------------------------
(* Emitting: the body of "for k, v in mods.items()" *)

\* result after the two ifs: "SKIP" is set first, "FAIL" overwrites it
Result(case) ==
    LET afterSkipped == IF case.skipped THEN "SKIP" ELSE "PASS"
    IN  IF case.failure THEN "FAIL" ELSE afterSkipped

NewSuiteNameByEnv(k, jenkins) == IF jenkins THEN k ELSE k \o "-sippy"

NewSuiteName(k, jenkins) == IF jenkins THEN k ELSE k

\* cloneNode(True) of the testcase at position i, then setAttribute("name", name) on the clone
DupCase(root, i, name) ==
    [root |-> root, dup |-> [root.cases[i] EXCEPT !.name = name]]

RECURSIVE ForNames(_, _, _, _)
\* for name in case["names"], from acc = the document, the children appended so
\* far and testnum, failnum, skipnum
ForNames(names, i, result, acc) ==
    IF names = <<>> THEN acc
    ELSE LET d == DupCase(acc.root, i, Head(names))
         IN  ForNames(Tail(names), i, result,
                      [root |-> d.root,
                       children |-> Append(acc.children, d.dup),
                       testnum |-> acc.testnum + 1,
                       failnum |-> IF result = "FAIL" THEN acc.failnum + 1 ELSE acc.failnum,
                       skipnum |-> IF result = "SKIP" THEN acc.skipnum + 1 ELSE acc.skipnum])

KeepCount(n) == n

\* "if n > 0: n = n - 1"
DropFirst(n) == IF n > 0 THEN n - 1 ELSE n

\* the locals of the loop over mods.items() before "for case in v["cases"]"
NewSuite(suite, k, v, jenkins) ==
    [k |-> k,
     testsuite |-> [time |-> suite.time, name |-> NewSuiteName(k, jenkins),
                    children |-> <<>>],
     testscount |-> v.tests,
     failurescount |-> v.failure,
     skippedcount |-> v.skipped,
     errorcount |-> v.errors,
     at |-> 1]

\* the document written for the bucket: the four counters set with str()
NewDoc(e) ==
    [time |-> e.testsuite.time,
     name |-> e.testsuite.name,
     tests |-> Str(e.testscount),
     failures |-> Str(e.failurescount),
     skipped |-> Str(e.skippedcount),
     errors |-> Str(e.errorcount),
     children |-> e.testsuite.children]

NotEmitting == [k |-> ""]

WriteFileAppending(fs, fname, data) ==
    IF fname \in DOMAIN fs THEN [fs EXCEPT ![fname] = @ \o data] ELSE (fname :> data) @@ fs

\* open(fname, "wb+"), write, close
WriteFile(fs, fname, data) == (fname :> data) @@ fs

----------------------------------------------------------------------------

Init ==
    /\ inputFile \in InputFiles
    /\ isJenkinsEnv = FALSE
    /\ pc = "Idle"
    /\ noderoot = NoDocument
    /\ origintestsuite = [time |-> ""]
    /\ mods = NoMods
    /\ idx = 1
    /\ pending = <<>>
    /\ emitting = NotEmitting
    /\ files \in {NoFiles, (FileName("Cluster_Infrastructure") :> <<StaleDocument>>)}
    /\ stdout = <<>>
    /\ exitCodes = <<>>
    /\ runs = 0
    /\ filesAtStart = files
    /\ prevJenkinsEnv = FALSE

\* __main__ up to the call of splitRP, with TestResult.__init__
Invoke ==
    /\ pc = "Idle"
    /\ runs < MaxRuns
    /\ \E env \in BOOLEAN :
          /\ isJenkinsEnv' = env
          /\ stdout' = <<[msg |-> "isJenkinsEnv", arg |-> env]>>
    /\ prevJenkinsEnv' = isJenkinsEnv
    /\ filesAtStart' = files
    /\ runs' = runs + 1
    /\ noderoot' = NoDocument
    /\ origintestsuite' = [time |-> ""]
    /\ mods' = NoMods
    /\ idx' = 1
    /\ pending' = <<>>
    /\ emitting' = NotEmitting
    /\ pc' = "Parsing"
    /\ UNCHANGED <<inputFile, files, exitCodes>>

\* lines 16-18 of splitRP, or the except clause they end in
Parse ==
    /\ pc = "Parsing"
    /\ LET exc == IF ParseRaises(inputFile) # "none" THEN ParseRaises(inputFile)
                  ELSE FirstTestsuiteRaises(inputFile)
       IN  IF exc = "none"
           THEN /\ noderoot' = inputFile
                /\ origintestsuite' = FirstTestsuite(inputFile)
                /\ mods' = InitMods
                /\ idx' = 1
                /\ pc' = "Bucketing"
                /\ UNCHANGED stdout
           ELSE /\ noderoot' = IF ParseRaises(inputFile) = "none" THEN inputFile ELSE noderoot
                /\ IF Handler(exc) = "Uncaught"
                   THEN pc' = "Crashed" /\ UNCHANGED stdout
                   ELSE /\ pc' = "Failed"
                        /\ stdout' = Append(stdout, [msg |-> Handler(exc), arg |-> exc])
                /\ UNCHANGED <<origintestsuite, mods, idx>>
    /\ UNCHANGED <<inputFile, isJenkinsEnv, pending, emitting, files, exitCodes, runs,
                   filesAtStart, prevJenkinsEnv>>

\* one iteration of "for case in cases"
BucketCase ==
    /\ pc = "Bucketing"
    /\ idx <= Len(noderoot.cases)
    /\ mods' = BucketOne(mods, noderoot, idx)
    /\ idx' = idx + 1
    /\ UNCHANGED <<inputFile, isJenkinsEnv, pc, noderoot, origintestsuite, pending,
                   emitting, files, stdout, exitCodes, runs, filesAtStart, prevJenkinsEnv>>

\* "for case in cases" is exhausted; "for k, v in mods.items()" starts
EndBucketing ==
    /\ pc = "Bucketing"
    /\ idx > Len(noderoot.cases)
    /\ pending' = KeysOf(DOMAIN mods)
    /\ pc' = "Emitting"
    /\ UNCHANGED <<inputFile, isJenkinsEnv, noderoot, origintestsuite, mods, idx,
                   emitting, files, stdout, exitCodes, runs, filesAtStart, prevJenkinsEnv>>

\* "for k, v in mods.items()" takes the next bucket: lines 53-67
BeginBucket ==
    /\ pc = "Emitting"
    /\ emitting = NotEmitting
    /\ pending # <<>>
    /\ emitting' = NewSuite(origintestsuite, Head(pending), mods[Head(pending)], isJenkinsEnv)
    /\ UNCHANGED <<inputFile, isJenkinsEnv, pc, noderoot, origintestsuite, mods, idx,
                   pending, files, stdout, exitCodes, runs, filesAtStart, prevJenkinsEnv>>

\* one iteration of "for case in v["cases"]": lines 70-100
EmitCase ==
    /\ pc = "Emitting"
    /\ emitting # NotEmitting
    /\ emitting.at <= Len(mods[emitting.k].cases)
    /\ \E case \in {mods[emitting.k].cases[emitting.at]} :
       \E inner \in { ForNames(case.names, case.case, Result(noderoot.cases[case.case]),
                               [root |-> noderoot, children |-> emitting.testsuite.children,
                                testnum |-> 0, failnum |-> 0, skipnum |-> 0]) } :
          /\ noderoot' = inner.root
          /\ emitting' = [emitting EXCEPT
                            !.testsuite.children = inner.children,
                            !.testscount = @ + DropFirst(inner.testnum),
                            !.failurescount = @ + DropFirst(inner.failnum),
                            !.skippedcount = @ + DropFirst(inner.skipnum),
                            !.at = @ + 1]
    /\ UNCHANGED <<inputFile, isJenkinsEnv, pc, origintestsuite, mods, idx, pending,
                   files, stdout, exitCodes, runs, filesAtStart, prevJenkinsEnv>>

\* "for case in v["cases"]" is exhausted: lines 102-111
WriteBucket ==
    /\ pc = "Emitting"
    /\ emitting # NotEmitting
    /\ emitting.at > Len(mods[emitting.k].cases)
    /\ files' = WriteFile(files, FileName(emitting.k), <<NewDoc(emitting)>>)
    /\ pending' = Tail(pending)
    /\ emitting' = NotEmitting
    /\ UNCHANGED <<inputFile, isJenkinsEnv, pc, noderoot, origintestsuite, mods, idx,
                   stdout, exitCodes, runs, filesAtStart, prevJenkinsEnv>>

\* "for k, v in mods.items()" is exhausted; splitRP returns
EndEmitting ==
    /\ pc = "Emitting"
    /\ emitting = NotEmitting
    /\ pending = <<>>
    /\ pc' = "Done"
    /\ UNCHANGED <<inputFile, isJenkinsEnv, noderoot, origintestsuite, mods, idx,
                   pending, emitting, files, stdout, exitCodes, runs, filesAtStart, prevJenkinsEnv>>

\* the process ends
Exit ==
    /\ pc \in {"Done", "Failed", "Crashed"}
    /\ exitCodes' = Append(exitCodes, ExitStatus(pc))
    /\ pc' = "Idle"
    /\ UNCHANGED <<inputFile, isJenkinsEnv, noderoot, origintestsuite, mods, idx,
                   pending, emitting, files, stdout, runs, filesAtStart, prevJenkinsEnv>>

Step ==
    \/ Parse \/ BucketCase \/ EndBucketing
    \/ BeginBucket \/ EmitCase \/ WriteBucket \/ EndEmitting
    \/ Exit

Next == Invoke \/ Step

Spec == Init /\ [][Next]_vars

\* a started process is scheduled until it ends
FairSpec == Spec /\ WF_vars(Step)

----------------------------------------------------------------------------
(* What the properties below speak about *)

OutputName == FileName("Cluster_Infrastructure")

HasMarker(name) == Contains(name, BeforeSuite)

\* positions of the testcases of doc that are not excluded, in document order
NonExcluded(doc) ==
    SelectSeq([i \in 1..Len(doc.cases) |-> i], LAMBDA i : ~ HasMarker(doc.cases[i].name))

ValidReport == inputFile.kind = "xml" /\ Len(inputFile.suites) >= 1

\* the buckets whose file the running process has written
Emitted == IF pc \in {"Emitting", "Done"}
           THEN {k \in DOMAIN mods : \A j \in 1..Len(pending) : pending[j] # k}
           ELSE {}

\* the testsuite the running process wrote for bucket k
Output(k) == files[FileName(k)][1]

\* (bucket, position) pairs that hold the testcase at position i
HeldAt(i) ==
    UNION { {<<k, j>> : j \in {n \in 1..Len(mods[k].cases) : mods[k].cases[n].case = i}} :
            k \in DOMAIN mods }

Count(doc, Test(_)) == Cardinality({i \in 1..Len(doc.cases) : Test(doc.cases[i])})

RECURSIVE ParseInt(_)
ParseInt(s) ==
    LET d == CHOOSE n \in 0..9 : Digit[n + 1] = s[Len(s)]
    IN  IF Len(s) = 1 THEN d ELSE 10 * ParseInt(SubSeq(s, 1, Len(s) - 1)) + d

QuotesBefore(s, i) == Cardinality({j \in 1..(i - 1) : s[j] = Quote})

\* r is s with exactly the ' characters deleted
IsStripped(r, s) ==
    /\ Len(r) = Len(s) - QuotesBefore(s, Len(s) + 1)
    /\ \A j \in 1..Len(r) : r[j] # Quote
    /\ \A i \in 1..Len(s) : s[i] # Quote => r[i - QuotesBefore(s, i)] = s[i]

Counter(m, k, field) == IF k \in DOMAIN m THEN m[k][field] ELSE 0

Diagnostics == {stdout[i].msg : i \in 1..Len(stdout)} \ {"isJenkinsEnv"}

----------------------------------------------------------------------------
(* C1: when split has completed on a report with a testsuite element,     *)
(* every testcase whose name does not contain "[BeforeSuite]" is held at  *)
(* exactly one place of exactly one bucket, and the output files hold     *)
(* exactly one copy of it: as many children as non-excluded testcases,    *)
(* and each renamed copy as often as the input has testcases it copies.   *)
C1_EachCaseExactlyOnce ==
    pc = "Done" =>
        LET src == NonExcluded(inputFile)
            copy(i) == [inputFile.cases[i] EXCEPT !.name = Replace(@, Quote)]
            all == {<<k, j>> : k \in Emitted, j \in 1..Len(src)}
            at(p) == Output(p[1]).children[p[2]]
        IN  /\ \A n \in 1..Len(src) : Cardinality(HeldAt(src[n])) = 1
            /\ Emitted = DOMAIN mods
            /\ \A k \in Emitted : FileName(k) \in DOMAIN files /\ Len(files[FileName(k)]) = 1
            /\ \A k \in Emitted : Len(Output(k).children) <= Len(src)
            /\ \A n \in 1..Len(src) :
                  Cardinality({p \in all : p[2] <= Len(Output(p[1]).children)
                                            /\ at(p) = copy(src[n])})
                  = Cardinality({m \in 1..Len(src) : copy(src[m]) = copy(src[n])})

C1_Witness ==
    /\ pc = "Done"
    /\ Len(inputFile.cases) = 2
    /\ Len(NonExcluded(inputFile)) = 2
    /\ inputFile.cases[1] # inputFile.cases[2]
    /\ Len(Output("Cluster_Infrastructure").children) = 2

(* C2: failure and skip are exclusive per testcase: in every output,      *)
(* failures is the number of non-excluded testcases with a failure child, *)
(* skipped the number of those with a skipped child and no failure child, *)
(* and so failures + skipped <= tests.                                     *)
C2_FailureSkipExclusive ==
    \A k \in Emitted :
        LET isFailed(c) == ~ HasMarker(c.name) /\ c.failure
            isSkipped(c) == ~ HasMarker(c.name) /\ c.skipped /\ ~ c.failure
        IN  /\ Output(k).failures = Str(Count(inputFile, isFailed))
            /\ Output(k).skipped = Str(Count(inputFile, isSkipped))
            /\ ParseInt(Output(k).failures) + ParseInt(Output(k).skipped)
                  <= ParseInt(Output(k).tests)

(* C3: in every output, tests is the number of testcases whose name does  *)
(* not contain "[BeforeSuite]", which is the number of children, and      *)
(* errors is 0; bucketing a testcase with neither child adds 1 to tests   *)
(* and nothing to the other counters, and bucketing a testcase whose name *)
(* contains "[BeforeSuite]" changes nothing in mods.                      *)
C3_OutputCounts ==
    \A k \in Emitted :
        /\ Output(k).tests = Str(Len(NonExcluded(inputFile)))
        /\ Len(Output(k).children) = Len(NonExcluded(inputFile))
        /\ Output(k).errors = Str(0)

C3_BucketStep ==
    (pc = "Bucketing" /\ idx' = idx + 1) =>
        LET c == noderoot.cases[idx]
            k == "Cluster_Infrastructure"
        IN  /\ HasMarker(c.name) => mods' = mods
            /\ (~ HasMarker(c.name) /\ ~ c.failure /\ ~ c.skipped) =>
                  /\ Counter(mods', k, "tests") = Counter(mods, k, "tests") + 1
                  /\ Counter(mods', k, "failure") = Counter(mods, k, "failure")
                  /\ Counter(mods', k, "skipped") = Counter(mods, k, "skipped")
                  /\ Counter(mods', k, "errors") = 0

C3_TestsCountsIncluded == [] C3_OutputCounts /\ [][C3_BucketStep]_vars

C3_Witness ==
    /\ pc = "Done"
    /\ Len(inputFile.cases) = 2
    /\ HasMarker(inputFile.cases[1].name) /\ inputFile.cases[1].failure
    /\ ~ HasMarker(inputFile.cases[2].name)
    /\ ~ inputFile.cases[2].failure /\ ~ inputFile.cases[2].skipped
    /\ Contains(Replace(inputFile.cases[2].name, Quote), BeforeSuite)
    /\ Output("Cluster_Infrastructure").tests = Str(1)

(* C4: when the input path does not exist or the file is not well-formed  *)
(* XML, no file is written, the matching diagnostic is printed, no        *)
(* exception leaves splitRP, and the process exits with status 0.         *)
C4_BadInputWritesNothing ==
    inputFile.kind \in {"missing", "malformed"} =>
        /\ files = filesAtStart
        /\ pc \in {"Idle", "Parsing", "Failed"}
        /\ (pc = "Failed" \/ (pc = "Idle" /\ runs > 0)) =>
              Diagnostics = {IF inputFile.kind = "missing" THEN "NotPresent"
                             ELSE "ErrorOccurred"}
        /\ \A i \in 1..Len(exitCodes) : exitCodes[i] = 0
        /\ pc = "Idle" => Len(exitCodes) = runs

C4_Witness ==
    /\ inputFile.kind = "malformed"
    /\ pc = "Idle"
    /\ Len(exitCodes) = 1
    /\ files = (OutputName :> <<StaleDocument>>)

(* C5: the children of an output are, in document order, the non-excluded *)
(* testcases of the input, each with the same failure and skipped         *)
(* children and with the name of the input with exactly its ' characters  *)
(* deleted; the parsed input document is never modified.                  *)
C5_CopiesDifferInNameOnly ==
    /\ noderoot \in {NoDocument, inputFile}
    /\ \A k \in Emitted :
          LET src == NonExcluded(inputFile)
              ch == Output(k).children
          IN  /\ Len(ch) = Len(src)
              /\ \A n \in 1..Len(src) :
                    /\ ch[n].failure = inputFile.cases[src[n]].failure
                    /\ ch[n].skipped = inputFile.cases[src[n]].skipped
                    /\ DOMAIN ch[n] = DOMAIN inputFile.cases[src[n]]
                    /\ IsStripped(ch[n].name, inputFile.cases[src[n]].name)

C5_Witness ==
    /\ pc = "Done"
    /\ Len(NonExcluded(inputFile)) = 2
    /\ QuotesBefore(inputFile.cases[1].name, Len(inputFile.cases[1].name) + 1) = 2
    /\ inputFile.cases[1].skipped
    /\ QuotesBefore(inputFile.cases[2].name, Len(inputFile.cases[2].name) + 1) = 0
    /\ Output("Cluster_Infrastructure").children[1].name = BeforeSuite
    /\ Output("Cluster_Infrastructure").children[2].name = inputFile.cases[2].name

(* C6: a second run on the same input in the same environment leaves the  *)
(* working directory as the first run left it, and a file a run writes    *)
(* holds exactly the one document of that run, whatever it held before.   *)
C6_SecondRunSameFiles ==
    /\ (runs >= 2 /\ prevJenkinsEnv = isJenkinsEnv /\ pc \in {"Done", "Failed"}) =>
          files = filesAtStart
    /\ \A k \in Emitted :
          /\ Len(files[FileName(k)]) = 1
          /\ Output(k).time = inputFile.suites[1].time
          /\ Output(k).tests = Str(Len(NonExcluded(inputFile)))

C6_Witness ==
    /\ runs = 2
    /\ prevJenkinsEnv = isJenkinsEnv
    /\ pc = "Done"
    /\ Emitted # {}
    /\ files = filesAtStart
    /\ Len(inputFile.cases) = 2

(* C7: a run that differs from the run before it only in isJenkinsEnv     *)
(* leaves the same files, and in every output name is the bucket key      *)
(* "Cluster_Infrastructure" and time is the time of the first testsuite.  *)
C7_EnvFlagHasNoEffect ==
    /\ (runs >= 2 /\ prevJenkinsEnv # isJenkinsEnv /\ pc \in {"Done", "Failed"}) =>
          files = filesAtStart
    /\ \A k \in Emitted :
          /\ k = "Cluster_Infrastructure"
          /\ Output(k).name = k
          /\ Output(k).time = inputFile.suites[1].time

C7_Witness ==
    /\ runs = 2
    /\ prevJenkinsEnv # isJenkinsEnv
    /\ pc = "Done"
    /\ Emitted # {}
    /\ Len(inputFile.suites) = 2
    /\ Output("Cluster_Infrastructure").time = "4.5"

(* C8: every case record carries exactly one name, and the tests,         *)
(* failures and skipped written for a bucket are the str() of the         *)
(* counters the bucket accumulated during bucketing.                      *)
C8_RecountIsNoOp ==
    /\ \A k \in DOMAIN mods :
          \A j \in 1..Len(mods[k].cases) : Len(mods[k].cases[j].names) = 1
    /\ \A k \in Emitted :
          /\ Output(k).tests = Str(mods[k].tests)
          /\ Output(k).failures = Str(mods[k].failure)
          /\ Output(k).skipped = Str(mods[k].skipped)

C8_Witness ==
    /\ pc = "Done"
    /\ Len(NonExcluded(inputFile)) = 2
    /\ inputFile.cases[1].failure /\ inputFile.cases[1].skipped
    /\ ~ inputFile.cases[2].failure /\ inputFile.cases[2].skipped
    /\ Output("Cluster_Infrastructure").skipped = Str(2)
    /\ Output("Cluster_Infrastructure").failures = Str(1)

(* C9: a process moves Idle, Parsing, Bucketing, Emitting, Done, or from  *)
(* Parsing or Bucketing to Failed, and always reaches Done or Failed; no  *)
(* file changes before Emitting or in a run that fails, a report without  *)
(* a testsuite element fails, and no file changes once in Failed.         *)
C9_Order ==
    pc' # pc =>
        <<pc, pc'>> \in { <<"Idle", "Parsing">>, <<"Parsing", "Bucketing">>,
                          <<"Bucketing", "Emitting">>, <<"Emitting", "Done">>,
                          <<"Parsing", "Failed">>, <<"Bucketing", "Failed">>,
                          <<"Done", "Idle">>, <<"Failed", "Idle">> }

C9_NoEarlyWrite ==
    /\ pc \in {"Parsing", "Bucketing", "Failed"} => files = filesAtStart
    /\ (pc = "Emitting" /\ Len(pending) = Cardinality(DOMAIN mods)) => files = filesAtStart
    /\ (inputFile.kind = "xml" /\ Len(inputFile.suites) = 0) =>
          pc \in {"Idle", "Parsing", "Failed"}

C9_LinearAndTerminates ==
    /\ [][C9_Order]_vars
    /\ [] C9_NoEarlyWrite
    /\ [][pc = "Failed" => files' = files]_vars
    /\ (pc = "Parsing") ~> (pc \in {"Done", "Failed"})

C9_Witness ==
    /\ pc = "Failed"
    /\ inputFile.kind = "xml"
    /\ Len(inputFile.suites) = 0
    /\ Len(inputFile.cases) = 2
    /\ ~ HasMarker(inputFile.cases[1].name)
    /\ files = (OutputName :> <<StaleDocument>>)

(* C10: a bucket always holds at least one case, so an emitted testsuite  *)
(* has tests >= 1 and a child; a run on a report with a testsuite element *)
(* and no non-excluded testcase does not fail, prints no diagnostic,      *)
(* exits with 0 and leaves the working directory as it found it.          *)
C10_NoEmptyBucket ==
    /\ \A k \in DOMAIN mods : Len(mods[k].cases) >= 1 /\ mods[k].tests >= 1
    /\ \A k \in Emitted :
          ParseInt(Output(k).tests) >= 1 /\ Len(Output(k).children) >= 1
    /\ (ValidReport /\ Len(NonExcluded(inputFile)) = 0) =>
          /\ files = filesAtStart
          /\ pc \in {"Idle", "Parsing", "Bucketing", "Emitting", "Done"}
          /\ pc \in {"Emitting", "Done"} => pending = <<>>
          /\ Diagnostics = {}
          /\ \A i \in 1..Len(exitCodes) : exitCodes[i] = 0

C10_Witness ==
    /\ pc = "Done"
    /\ ValidReport
    /\ Len(inputFile.cases) = 2
    /\ Len(NonExcluded(inputFile)) = 0
    /\ files = (OutputName :> <<StaleDocument>>)

====
